---- MODULE Spec2Model ----
(***************************************************************************)
(* Model of the swagger model builder of go-restful                        *)
(* (src/swagger/model_builder.go): the recursive traversal addModel over a *)
(* universe of Go types, executed as a call-stack machine over the         *)
(* registry b.Models, the property maps it shares by reference, and the    *)
(* transient sub-registries made for embedded structs; and of              *)
(* Request.ReadEntity (src/request.go): the body stream, the cached body   *)
(* and the choice of the decoder.                                          *)
(***************************************************************************)
EXTENDS Integers, Sequences, FiniteSets, TLC

(* ---------------------------------------------------------------------- *)
(* Bounds                                                                  *)
(* ---------------------------------------------------------------------- *)

\* number of addModelFrom calls one builder receives
MaxCalls == 2

\* number of addModelFrom calls in the behaviours checked for termination
MaxLiveCalls == 1

\* number of ReadEntity calls one Request receives
MaxReads == 2

\* number of goroutines that call ReadEntity on the Request
MaxGoroutines == 2

\* call-stack depth (addModel activations) at which the goroutine stack is
\* taken to be exhausted; the deepest terminating traversal of the universe
\* below needs 5 activations
MaxDepth == 9

(* ---------------------------------------------------------------------- *)
(* Go strings (package strings)                                            *)
(* ---------------------------------------------------------------------- *)

\* nil *string / nil *Item
NIL == "<nil>"

\* strings.Contains(s, substr)
Contains(s, substr) ==
    \E i \in 0..(Len(s) - Len(substr)) : SubSeq(s, i + 1, i + Len(substr)) = substr

\* strings.Index(s, c) + 1 for a one-byte c (0 when absent)
IndexOf(s, c) ==
    IF \E i \in 1..Len(s) : SubSeq(s, i, i) = c
    THEN CHOOSE i \in 1..Len(s) :
            /\ SubSeq(s, i, i) = c
            /\ \A j \in 1..(i - 1) : SubSeq(s, j, j) # c
    ELSE 0

RECURSIVE Split(_, _)
\* strings.Split(s, sep) for a one-byte sep
Split(s, sep) ==
    LET idx == IndexOf(s, sep)
    IN  IF idx = 0 THEN <<s>>
        ELSE <<SubSeq(s, 1, idx - 1)>> \o Split(SubSeq(s, idx + 1, Len(s)), sep)

RECURSIVE ReplaceBrackets(_)
\* strings.Replace(key, "[]", "||", -1)
ReplaceBrackets(key) ==
    IF Len(key) < 2 THEN key
    ELSE IF SubSeq(key, 1, 2) = "[]"
         THEN "||" \o ReplaceBrackets(SubSeq(key, 3, Len(key)))
         ELSE SubSeq(key, 1, 1) \o ReplaceBrackets(SubSeq(key, 2, Len(key)))

\* s[1:]
DropFirst(s) == SubSeq(s, 2, Len(s))

(* ---------------------------------------------------------------------- *)
(* The universe of Go types handed to the builder (what package reflect    *)
(* reports about them)                                                     *)
(* ---------------------------------------------------------------------- *)

Builtin(n) ==
    [kind |-> n, pkg |-> "", name |-> n, elem |-> "", lit |-> "",
     fields |-> <<>>, marshaler |-> FALSE, buildable |-> FALSE]

NamedStruct(p, n, fs) ==
    [kind |-> "struct", pkg |-> p, name |-> n, elem |-> "", lit |-> "",
     fields |-> fs, marshaler |-> FALSE, buildable |-> FALSE]

\* an unnamed type literal: pointer, slice, array, map, struct, interface
Unnamed(k, e, l, fs) ==
    [kind |-> k, pkg |-> "", name |-> "", elem |-> e, lit |-> l,
     fields |-> fs, marshaler |-> FALSE, buildable |-> FALSE]

PtrTo(e) == Unnamed("ptr", e, "*", <<>>)
SliceOf(e) == Unnamed("slice", e, "[]", <<>>)

\* a struct field: Go name, type, embedded or not, and what field.Tag.Get
\* returns for the keys "json" and "description"
Fld(n, t, j) ==
    [Name |-> n, Type |-> t, Anonymous |-> FALSE, json |-> j, description |-> ""]

Emb(n, t, j) ==
    [Name |-> n, Type |-> t, Anonymous |-> TRUE, json |-> j, description |-> ""]

Types ==
    [t \in {} |-> Builtin("")] @@
    \* predeclared scalars
    ("int" :> Builtin("int")) @@ ("int32" :> Builtin("int32")) @@
    ("uint" :> Builtin("uint")) @@ ("uint8" :> Builtin("uint8")) @@
    ("string" :> Builtin("string")) @@ ("bool" :> Builtin("bool")) @@
    ("float64" :> Builtin("float64")) @@
    \* time.Time has a MarshalJSON method
    ("Time" :> [NamedStruct("time", "Time", <<>>) EXCEPT !.marshaler = TRUE]) @@
    \* type MyInt int
    ("MyInt" :> [Builtin("int") EXCEPT !.pkg = "m", !.name = "MyInt"]) @@
    \* package e; type T struct{ V int }
    ("ET" :> NamedStruct("e", "T", <<Fld("V", "int", "")>>)) @@
    \* type Node struct{ Val int32 `json:"val,omitempty"`; Next *Node `json:"next"` }
    ("Node" :> NamedStruct("m", "Node",
        <<Fld("Val", "int32", "val,omitempty"), Fld("Next", "*Node", "next")>>)) @@
    ("*Node" :> PtrTo("Node")) @@
    \* type A struct{ B *B `json:"b"` } ; type B struct{ A *A `json:"a"`; As []*A `json:"as"` }
    ("A" :> NamedStruct("m", "A", <<Fld("B", "*B", "b")>>)) @@
    ("B" :> NamedStruct("m", "B",
        <<Fld("A", "*A", "a"), Fld("As", "[]*A", "as")>>)) @@
    ("*A" :> PtrTo("A")) @@ ("*B" :> PtrTo("B")) @@ ("[]*A" :> SliceOf("*A")) @@
    \* type Tag struct{ K string `json:"k"`; K2 string `json:"k"` }
    ("Tag" :> NamedStruct("m", "Tag",
        <<Fld("K", "string", "k"), Fld("K2", "string", "k")>>)) @@
    ("[]Tag" :> SliceOf("Tag")) @@
    \* type Leaf struct{ ID string `json:"id"` }
    ("Leaf" :> NamedStruct("m", "Leaf", <<Fld("ID", "string", "id")>>)) @@
    ("*Leaf" :> PtrTo("Leaf")) @@ ("[]Leaf" :> SliceOf("Leaf")) @@
    ("*[]Leaf" :> PtrTo("[]Leaf")) @@
    \* type Mid struct{ Leaf *Leaf `json:"leaf"`; N int `json:"n,omitempty"` }
    \* with a PostBuildModel method
    ("Mid" :> [NamedStruct("m", "Mid",
        <<Fld("Leaf", "*Leaf", "leaf"), Fld("N", "int", "n,omitempty")>>)
        EXCEPT !.buildable = TRUE]) @@
    ("*Mid" :> PtrTo("Mid")) @@
    \* type Inner struct{ A int `json:"a"`; R *Mid `json:"r,omitempty"`; L []Tag `json:"l"` }
    ("Inner" :> NamedStruct("m", "Inner",
        <<Fld("A", "int", "a"), Fld("R", "*Mid", "r,omitempty"),
          Fld("L", "[]Tag", "l")>>)) @@
    \* type Outer struct{ A string `json:"a"`; Inner; R string `json:"r"` }
    ("Outer" :> NamedStruct("m", "Outer",
        <<Fld("A", "string", "a"), Emb("Inner", "Inner", ""),
          Fld("R", "string", "r")>>)) @@
    \* type W struct{ Inner `json:"inner"`; Leaf `json:",omitempty"` }
    ("W" :> NamedStruct("m", "W",
        <<Emb("Inner", "Inner", "inner"), Emb("Leaf", "Leaf", ",omitempty")>>)) @@
    \* type E1 struct{ E2 } ; type E2 struct{ P *E1 `json:"p"` }
    ("E1" :> NamedStruct("m", "E1", <<Emb("E2", "E2", "")>>)) @@
    ("E2" :> NamedStruct("m", "E2", <<Fld("P", "*E1", "p")>>)) @@
    ("*E1" :> PtrTo("E1")) @@
    \* two packages both called m, each declaring a type Dup
    ("Dup1" :> NamedStruct("m", "Dup", <<Fld("X", "int", "x")>>)) @@
    ("Dup2" :> NamedStruct("m", "Dup", <<Fld("Y", "string", "y")>>)) @@
    \* type P struct{ ... } : the scalar, tag and list cases
    ("P" :> NamedStruct("m", "P",
        <<Fld("I32", "int32", "i32"), Fld("U", "uint", "u"),
          Fld("F", "float64", "f"), Fld("B", "bool", "b,omitempty"),
          Fld("T", "Time", "t"), Fld("N", "MyInt", "n"),
          Fld("S", "int", "s,string"), Fld("Skip", "string", "-"),
          Fld("O", "bool", "o,string,omitempty"),
          Fld("Bs", "[]uint8", "bs"), Fld("Ss", "[]string", "ss"),
          Fld("PS", "*[]string", "ps"), Fld("M", "map[string]int", "m"),
          [Fld("D", "string", "") EXCEPT !.description = "desc"],
          Fld("ET", "ET", "et"), Fld("Arr", "[2]int32", ",omitempty")>>)) @@
    ("[]uint8" :> SliceOf("uint8")) @@ ("[]string" :> SliceOf("string")) @@
    ("*[]string" :> PtrTo("[]string")) @@
    ("map[string]int" :> Unnamed("map", "int", "map[string]", <<>>)) @@
    ("[2]int32" :> Unnamed("array", "int32", "[2]", <<>>)) @@
    \* type H struct{ X struct{ Y struct{ Z int } } `json:"x"`
    \*                Q *struct{ V string } `json:"q"`
    \*                S []struct{ W bool } `json:"s"`
    \*                Any interface{} `json:"any"`
    \*                PL *[]Leaf `json:"pl"` ; SL []Leaf `json:"sl"` }
    ("H" :> NamedStruct("m", "H",
        <<Fld("X", "anonX", "x"), Fld("Q", "*anonQ", "q"), Fld("S", "[]anonS", "s"),
          Fld("Any", "iface", "any"), Fld("PL", "*[]Leaf", "pl"),
          Fld("SL", "[]Leaf", "sl")>>)) @@
    ("anonX" :> Unnamed("struct", "", "struct { Y struct { Z int } }",
        <<Fld("Y", "anonY", "")>>)) @@
    ("anonY" :> Unnamed("struct", "", "struct { Z int }", <<Fld("Z", "int", "")>>)) @@
    ("anonQ" :> Unnamed("struct", "", "struct { V string }",
        <<Fld("V", "string", "")>>)) @@
    ("*anonQ" :> PtrTo("anonQ")) @@
    ("anonS" :> Unnamed("struct", "", "struct { W bool }", <<Fld("W", "bool", "")>>)) @@
    ("[]anonS" :> SliceOf("anonS")) @@
    ("iface" :> Unnamed("interface", "", "interface {}", <<>>)) @@
    \* type KD struct{ D Dup `json:"d"`; N MyInt `json:"n"` }, Dup being the
    \* second of the two types m.Dup ; type ED struct{ KD }
    ("KD" :> NamedStruct("m", "KD",
        <<Fld("D", "Dup2", "d"), Fld("N", "MyInt", "n")>>)) @@
    ("ED" :> NamedStruct("m", "ED", <<Emb("KD", "KD", "")>>)) @@
    \* type L struct{ PA *[]*Leaf `json:"pa"` }
    ("L" :> NamedStruct("m", "L", <<Fld("PA", "*[]*Leaf", "pa")>>)) @@
    ("[]*Leaf" :> SliceOf("*Leaf")) @@ ("*[]*Leaf" :> PtrTo("[]*Leaf"))

TypeIds == DOMAIN Types

\* the sample values a caller passes to addModelFrom, by their type
Samples == {"Node", "A", "Mid", "Inner", "Outer", "W", "E1", "Dup1", "Dup2",
            "P", "H", "[]Leaf", "ED", "L"}

\* a reflect.Type is the descriptor of a type; TypeOf yields the one of a
\* type of the universe
TypeOf(id) == Types[id]

\* reflect.Type.Kind()
Kind(t) == t.kind

\* reflect.Type.Name(): empty for an unnamed type
Name(t) == t.name

\* reflect.Type.Elem()
Elem(t) == Types[t.elem]

\* reflect.Type.NumField()
NumField(t) == Len(t.fields)

\* reflect.Type.Field(i), 1-based here; its Type names the field's type
Field(t, i) == t.fields[i]

RECURSIVE String(_)
\* reflect.Type.String(): package-qualified name, or the literal
String(t) ==
    IF t.name # ""
    THEN IF t.pkg = "" THEN t.name ELSE t.pkg \o "." \o t.name
    ELSE IF t.kind \in {"ptr", "slice", "array", "map"}
         THEN t.lit \o String(Elem(t))
         ELSE t.lit

\* fieldType.Implements(json.Marshaler)
ImplementsMarshaler(t) == t.marshaler

\* sample.(ModelBuildable)
IsModelBuildable(t) == t.buildable

(* ---------------------------------------------------------------------- *)
(* Data model: ModelProperty, Item, Model                                  *)
(* ---------------------------------------------------------------------- *)

\* a nil *Item
NoItems == [nil |-> TRUE, Type |-> NIL, Ref |-> NIL]

\* the zero ModelProperty (var prop ModelProperty)
ZeroProp ==
    [Type |-> NIL, Format |-> "", Ref |-> NIL, Items |-> NoItems, Description |-> ""]

\* a nil map[string]ModelProperty, also the content of a fresh one
EmptyMap == [k \in {} |-> ZeroProp]

\* the zero Model, which a Go map yields for a missing key; Properties is
\* the address of the property map, 0 for the nil map
ZeroModel == [Id |-> "", Required |-> <<>>, Properties |-> 0]

\* m[k] = v on a Go map
Put(m, k, v) == [x \in (DOMAIN m) \cup {k} |-> IF x = k THEN v ELSE m[x]]

(* ---------------------------------------------------------------------- *)
(* Pure helpers of modelBuilder                                            *)
(* ---------------------------------------------------------------------- *)

PrimitiveNames ==
    "uint8 uint16 uint32 uint64 int int8 int16 int32 int64 float32 float64 bool string byte rune time.Time"

\* isPrimitiveType: a substring test against the list of names
isPrimitiveType(modelName) == Contains(PrimitiveNames, modelName)

\* keyFrom: the type's String(), with "[]" replaced in unnamed types
keyFrom(st) ==
    IF Len(Name(st)) = 0 THEN ReplaceBrackets(String(st)) ELSE String(st)

\* jsonNameOfField: "" signals that the field is skipped
jsonNameOfField(field) ==
    IF field.json # ""
    THEN LET s == Split(field.json, ",")
         IN  IF s[1] = "-" THEN ""
             ELSE IF s[1] # "" THEN s[1] ELSE field.Name
    ELSE field.Name

SchemaTypeMap ==
    ("uint8" :> "integer") @@ ("uint16" :> "integer") @@ ("uint32" :> "integer") @@
    ("uint64" :> "integer") @@ ("int" :> "integer") @@ ("int8" :> "integer") @@
    ("int16" :> "integer") @@ ("int32" :> "integer") @@ ("int64" :> "integer") @@
    ("byte" :> "integer") @@ ("float64" :> "number") @@ ("float32" :> "number") @@
    ("bool" :> "boolean") @@ ("time.Time" :> "string")

\* jsonSchemaType: the mapped schema type, or the name as it is
jsonSchemaType(modelName) ==
    IF modelName \in DOMAIN SchemaTypeMap THEN SchemaTypeMap[modelName] ELSE modelName

SchemaFormatMap ==
    ("int" :> "int32") @@ ("int32" :> "int32") @@ ("int64" :> "int64") @@
    ("byte" :> "byte") @@ ("uint8" :> "byte") @@ ("float64" :> "double") @@
    ("float32" :> "float") @@ ("time.Time" :> "date-time")

\* jsonSchemaFormat: the format, or "" for none
jsonSchemaFormat(modelName) ==
    IF modelName \in DOMAIN SchemaFormatMap THEN SchemaFormatMap[modelName] ELSE ""

\* isPropertyRequired: false only when the second tag part is omitempty
isPropertyRequired(field) ==
    IF field.json # ""
    THEN LET s == Split(field.json, ",")
         IN  ~(Len(s) > 1 /\ s[2] = "omitempty")
    ELSE TRUE

\* hasNamedJSONTag
hasNamedJSONTag(field) ==
    LET parts == Split(field.json, ",")
    IN  IF Len(parts) = 0 THEN FALSE
        ELSE IF \E i \in 2..Len(parts) : parts[i] = "inline" THEN FALSE
        ELSE Len(parts[1]) > 0

\* getElementTypeName that names an unnamed type by its key
getElementTypeName_KeyFrom(modelName, jsonName, t) ==
    IF Kind(t) = "ptr" THEN DropFirst(String(t))
    ELSE IF isPrimitiveType(Name(t)) /\ Name(t) # "" THEN jsonSchemaType(Name(t))
    ELSE keyFrom(t)

\* getElementTypeName
getElementTypeName(modelName, jsonName, t) ==
    IF Kind(t) = "ptr" THEN DropFirst(String(t))
    ELSE IF Name(t) = "" THEN modelName \o "." \o jsonName
    ELSE IF isPrimitiveType(Name(t)) THEN jsonSchemaType(Name(t))
    ELSE keyFrom(t)

(* ---------------------------------------------------------------------- *)
(* buildProperty and the three builders it dispatches to.  Each yields     *)
(* the JSON name, the property, and the addModel call it makes on the way: *)
(* call = "none", "addModel" (on the same builder, with type callType and  *)
(* nameOverride callName) or "embedded" (on a fresh sub-builder).          *)
(* ---------------------------------------------------------------------- *)

Built(jsonName, prop) ==
    [jsonName |-> jsonName, prop |-> prop, call |-> "none",
     callType |-> "", callName |-> ""]

BuiltCalling(jsonName, prop, t, nameOverride) ==
    [jsonName |-> jsonName, prop |-> prop, call |-> "addModel",
     callType |-> t, callName |-> nameOverride]

BuiltEmbedded(t) ==
    [jsonName |-> "", prop |-> ZeroProp, call |-> "embedded",
     callType |-> t, callName |-> ""]

\* buildStructTypeProperty (fieldType is field.Type)
buildStructTypeProperty(field, fieldType, jsonName, modelId) ==
    IF Len(Name(fieldType)) = 0
    THEN BuiltCalling(jsonName, [ZeroProp EXCEPT !.Ref = modelId \o "." \o jsonName],
                      field.Type, modelId \o "." \o jsonName)
    ELSE IF field.Name = Name(fieldType) /\ field.Anonymous
            /\ ~hasNamedJSONTag(field)
    THEN BuiltEmbedded(field.Type)
    ELSE BuiltCalling(jsonName, [ZeroProp EXCEPT !.Ref = String(fieldType)],
                      field.Type, "")

\* ItemsFor that sets the Ref also next to a Type
ItemsFor_Both(elemTypeName) ==
    IF isPrimitiveType(elemTypeName)
    THEN [nil |-> FALSE, Type |-> jsonSchemaType(elemTypeName), Ref |-> elemTypeName]
    ELSE [nil |-> FALSE, Type |-> NIL, Ref |-> elemTypeName]

\* the Item of an array property whose element type has this name
ItemsFor(elemTypeName) ==
    IF isPrimitiveType(elemTypeName)
    THEN [nil |-> FALSE, Type |-> jsonSchemaType(elemTypeName), Ref |-> NIL]
    ELSE [nil |-> FALSE, Type |-> NIL, Ref |-> elemTypeName]

\* buildArrayTypeProperty (fieldType is field.Type); the model added is the
\* one of the element type, or of its pointee when it is a pointer
buildArrayTypeProperty(fieldType, jsonName, modelName) ==
    LET elemTypeName == getElementTypeName(modelName, jsonName, Elem(fieldType))
    IN  BuiltCalling(jsonName,
            [ZeroProp EXCEPT !.Type = "array", !.Items = ItemsFor(elemTypeName)],
            IF Kind(Elem(fieldType)) = "ptr" THEN Elem(fieldType).elem
            ELSE fieldType.elem,
            elemTypeName)

\* buildPointerTypeProperty (fieldType is field.Type)
buildPointerTypeProperty(fieldType, jsonName, modelName) ==
    IF Kind(Elem(fieldType)) \in {"slice", "array"}
    THEN LET elemName == getElementTypeName(modelName, jsonName,
                                            Elem(Elem(fieldType)))
         IN  BuiltCalling(jsonName,
                [ZeroProp EXCEPT !.Type = "array",
                    !.Items = [nil |-> FALSE, Type |-> NIL, Ref |-> elemName]],
                Elem(fieldType).elem, elemName)
    ELSE IF Name(Elem(fieldType)) = ""
    THEN BuiltCalling(jsonName,
            [ZeroProp EXCEPT !.Ref = modelName \o "." \o jsonName],
            fieldType.elem, modelName \o "." \o jsonName)
    ELSE BuiltCalling(jsonName,
            [ZeroProp EXCEPT !.Ref = DropFirst(String(fieldType))],
            fieldType.elem, "")

\* the second part of the json tag is "string"
TagSaysString(field) ==
    /\ field.json # ""
    /\ LET s == Split(field.json, ",") IN Len(s) > 1 /\ s[2] = "string"

\* buildProperty (fieldType is field.Type)
buildProperty(field, fieldType, modelId, modelName) ==
    LET jsonName == jsonNameOfField(field)
        fieldKind == Kind(fieldType)
    IN  IF Len(jsonName) = 0 THEN Built("", ZeroProp)
        ELSE IF ImplementsMarshaler(fieldType)
        THEN Built(jsonName, [ZeroProp EXCEPT !.Type = "string",
                                 !.Format = jsonSchemaFormat(String(fieldType))])
        ELSE IF TagSaysString(field)
        THEN Built(jsonName, [ZeroProp EXCEPT !.Type = "string"])
        ELSE IF fieldKind = "struct"
        THEN buildStructTypeProperty(field, fieldType, jsonName, modelId)
        ELSE IF fieldKind \in {"slice", "array"}
        THEN buildArrayTypeProperty(fieldType, jsonName, modelName)
        ELSE IF fieldKind = "ptr"
        THEN buildPointerTypeProperty(fieldType, jsonName, modelName)
        ELSE IF fieldKind = "string"
        THEN Built(jsonName, [ZeroProp EXCEPT !.Type = "string"])
        ELSE IF fieldKind = "map"
        THEN Built(jsonName, [ZeroProp EXCEPT !.Type = "any"])
        ELSE IF isPrimitiveType(String(fieldType))
        THEN Built(jsonName, [ZeroProp EXCEPT
                                 !.Type = jsonSchemaType(String(fieldType)),
                                 !.Format = jsonSchemaFormat(String(fieldType))])
        ELSE IF Name(fieldType) = ""
        THEN BuiltCalling(jsonName,
                [ZeroProp EXCEPT !.Ref = modelName \o "." \o jsonName],
                field.Type, modelName \o "." \o jsonName)
        ELSE Built(jsonName, [ZeroProp EXCEPT !.Ref = String(fieldType)])

(* ---------------------------------------------------------------------- *)
(* State                                                                   *)
(* ---------------------------------------------------------------------- *)

VARIABLES
    regs,        \* the live builders' Models maps; regs[1] is b.Models of the
                 \* builder the caller holds, the others are sub-builders
    heap,        \* the property maps, by address (Model.Properties is a Go map)
    stack,       \* the activations of addModel, innermost last
    phase,       \* "idle", "building", "returned" (addModel is back in
                 \* addModelFrom) or "overflow" (the stack is exhausted)
    ret,         \* what the outermost addModel returned: nil or &sm
    calls,       \* addModelFrom calls made so far
    sample,      \* type of the sample of the current (or last) addModelFrom
    prevSample,  \* type of the sample of the call before it
    seen,        \* types of the samples of all the calls before the current one
    before,      \* content of b.Models when the current call was made
    hookCalls,   \* PostBuildModel invocations so far
    hooksBefore  \* hookCalls when the current call was made

\* the state of package restful around one Request (src/request.go)
VARIABLES
    received,                   \* NewRequest has made the Request
    method,                     \* r.Request.Method
    contentType,                \* the Content-Type header of r.Request
    content,                    \* the bytes the request was sent with
    body,                       \* the bytes r.Request.Body has yet to yield
    formParsed,                 \* ParseForm of r.Request: "no", "reading" the body, "yes"
    bodyContent,                \* r.bodyContent: nil, or the cached body
    defaultRequestContentType,  \* the package variable of that name
    doCacheReadEntityBytes,     \* the package variable of that name
    procs,                      \* the goroutines that call ReadEntity: where
                                \* each is in it, and its local variables
    started,                    \* ReadEntity calls made so far
    log                         \* what each ReadEntity call did, in the
                                \* order the calls returned

\* the variables of the builder
builder == <<regs, heap, stack, phase, ret, calls, sample, prevSample, seen, before,
             hookCalls, hooksBefore>>

\* the variables of the request side
request == <<received, method, contentType, content, body, formParsed, bodyContent,
             defaultRequestContentType, doCacheReadEntityBytes, procs, started, log>>

vars == <<builder, request>>

\* a nil *[]byte
NoBytes == [nil |-> TRUE, bytes |-> ""]

\* the goroutines that may be inside ReadEntity on the Request
Goroutines == 1..MaxGoroutines

\* a goroutine that is not inside ReadEntity
Idle ==
    [pc |-> "idle", cached |-> FALSE, src |-> "", buffer |-> "", decoder |-> "none",
     read |-> "none", stored |-> FALSE]

\* the content of the property map at an address
PropsAt(h, addr) == IF addr = 0 THEN EmptyMap ELSE h[addr]

\* what a reader of a Models map sees: every Model with its properties
Content(reg, h) ==
    [k \in DOMAIN reg |->
        [Id |-> reg[k].Id, Required |-> reg[k].Required,
         Properties |-> PropsAt(h, reg[k].Properties)]]

\* b.Models of the caller's builder, as read now
Models == Content(regs[1], heap)

\* models[key], the zero Model when the key is missing
Lookup(reg, key) == IF key \in DOMAIN reg THEN reg[key] ELSE ZeroModel

NilReturn == [nil |-> TRUE, sm |-> ZeroModel]

Frame(st, nameOverride, b) ==
    [st |-> st, nameOverride |-> nameOverride, b |-> b, pc |-> "enter",
     modelName |-> "", sm |-> ZeroModel, i |-> 1,
     jsonName |-> "", prop |-> ZeroProp, sub |-> 0]

Top == stack[Len(stack)]

SetTop(f) == [stack EXCEPT ![Len(stack)] = f]

Init ==
    /\ regs = <<[k \in {} |-> ZeroModel]>>
    /\ heap = <<>>
    /\ stack = <<>>
    /\ phase = "idle"
    /\ ret = NilReturn
    /\ calls = 0
    /\ sample = ""
    /\ prevSample = ""
    /\ seen = {}
    /\ before = Content([k \in {} |-> ZeroModel], <<>>)
    /\ hookCalls = 0
    /\ hooksBefore = 0
    /\ received = FALSE
    /\ method = ""
    /\ contentType = ""
    /\ content = ""
    /\ body = ""
    /\ formParsed = "no"
    /\ bodyContent = NoBytes
    /\ defaultRequestContentType = ""
    /\ doCacheReadEntityBytes = TRUE
    /\ procs = [g \in Goroutines |-> Idle]
    /\ started = 0
    /\ log = <<>>

history == <<calls, sample, prevSample, seen, before, hookCalls, hooksBefore>>

(* ---------------------------------------------------------------------- *)
(* addModelFrom: the call                                                  *)
(* ---------------------------------------------------------------------- *)

\* addModelFrom(sample) calls b.addModel(reflect.TypeOf(sample), "")
AddModelFrom(s) ==
    /\ phase = "idle"
    /\ calls < MaxCalls
    /\ stack' = <<Frame(s, "", 1)>>
    /\ phase' = "building"
    /\ calls' = calls + 1
    /\ sample' = s
    /\ prevSample' = sample
    /\ seen' = IF calls = 0 THEN {} ELSE seen \cup {sample}
    /\ before' = Models
    /\ hooksBefore' = hookCalls
    /\ UNCHANGED <<request, regs, heap, ret, hookCalls>>

(* ---------------------------------------------------------------------- *)
(* addModel                                                                *)
(* ---------------------------------------------------------------------- *)

\* the name addModel computes on entry
ModelNameOf(f) == IF f.nameOverride # "" THEN f.nameOverride ELSE keyFrom(TypeOf(f.st))

\* the innermost activation returns v to its caller
Returns(v) ==
    /\ stack' = SubSeq(stack, 1, Len(stack) - 1)
    /\ ret' = v
    /\ phase' = IF Len(stack) = 1 THEN "returned" ELSE phase

Running(pc) == phase = "building" /\ stack # <<>> /\ Top.pc = pc

\* no models needed for primitive types: return nil
EnterPrimitive ==
    /\ Running("enter")
    /\ \E modelName \in {ModelNameOf(Top)} : isPrimitiveType(modelName)
    /\ Returns(NilReturn)
    /\ UNCHANGED <<request, regs, heap, history>>

\* EnterVisited that builds the model again instead of returning nil
EnterVisited_Rebuild ==
    /\ Running("enter")
    /\ \E modelName \in {ModelNameOf(Top)} :
          /\ ~isPrimitiveType(modelName)
          /\ modelName \in DOMAIN regs[Top.b]
          /\ \E sm \in {[Id |-> modelName, Required |-> <<>>,
                         Properties |-> Len(heap) + 1]} :
                /\ heap' = Append(heap, EmptyMap)
                /\ regs' = [regs EXCEPT ![Top.b] = Put(@, modelName, sm)]
                /\ stack' = SetTop([Top EXCEPT !.pc = "kind",
                                      !.modelName = modelName, !.sm = sm])
    /\ UNCHANGED <<request, phase, ret, history>>

\* the model was visited already: return nil
EnterVisited ==
    /\ Running("enter")
    /\ \E modelName \in {ModelNameOf(Top)} :
          /\ ~isPrimitiveType(modelName)
          /\ modelName \in DOMAIN regs[Top.b]
    /\ Returns(NilReturn)
    /\ UNCHANGED <<request, regs, heap, history>>

\* EnterNew without the reference in b.Models before the fields are visited
EnterNew_NoPlaceholder ==
    /\ Running("enter")
    /\ \E modelName \in {ModelNameOf(Top)} :
          /\ ~isPrimitiveType(modelName)
          /\ modelName \notin DOMAIN regs[Top.b]
          /\ \E sm \in {[Id |-> modelName, Required |-> <<>>,
                         Properties |-> Len(heap) + 1]} :
                /\ heap' = Append(heap, EmptyMap)
                /\ regs' = regs
                /\ stack' = SetTop([Top EXCEPT !.pc = "kind",
                                      !.modelName = modelName, !.sm = sm])
    /\ UNCHANGED <<request, phase, ret, history>>

\* make sm and reference it in b.Models before further initializing
EnterNew ==
    /\ Running("enter")
    /\ \E modelName \in {ModelNameOf(Top)} :
          /\ ~isPrimitiveType(modelName)
          /\ modelName \notin DOMAIN regs[Top.b]
          /\ \E sm \in {[Id |-> modelName, Required |-> <<>>,
                         Properties |-> Len(heap) + 1]} :
                /\ heap' = Append(heap, EmptyMap)
                /\ regs' = [regs EXCEPT ![Top.b] = Put(@, modelName, sm)]
                /\ stack' = SetTop([Top EXCEPT !.pc = "kind",
                                      !.modelName = modelName, !.sm = sm])
    /\ UNCHANGED <<request, phase, ret, history>>

\* a slice or array: b.addModel(st.Elem(), "")
KindList ==
    /\ Running("kind")
    /\ Kind(TypeOf(Top.st)) \in {"slice", "array"}
    /\ Len(stack) < MaxDepth
    /\ stack' = Append(SetTop([Top EXCEPT !.pc = "afterElem"]),
                       Frame(TypeOf(Top.st).elem, "", Top.b))
    /\ UNCHANGED <<request, regs, heap, phase, ret, history>>

\* ... and return &sm
AfterElem ==
    /\ Running("afterElem")
    /\ Returns([nil |-> FALSE, sm |-> Top.sm])
    /\ UNCHANGED <<request, regs, heap, history>>

\* neither list nor struct: return &sm
KindOther ==
    /\ Running("kind")
    /\ Kind(TypeOf(Top.st)) \notin {"slice", "array", "struct"}
    /\ Returns([nil |-> FALSE, sm |-> Top.sm])
    /\ UNCHANGED <<request, regs, heap, history>>

\* a struct: enter the loop over its fields
KindStruct ==
    /\ Running("kind")
    /\ Kind(TypeOf(Top.st)) = "struct"
    /\ stack' = SetTop([Top EXCEPT !.pc = "fields", !.i = 1])
    /\ UNCHANGED <<request, regs, heap, phase, ret, history>>

\* the loop is at a field: i < st.NumField()
AtField == Running("fields") /\ Top.i <= NumField(TypeOf(Top.st))

\* st.Field(i) of the activation
FieldOf(f) == Field(TypeOf(f.st), f.i)

\* b.buildProperty(field, &sm, modelName) for the field the loop is at
Plan(f) == buildProperty(FieldOf(f), TypeOf(FieldOf(f).Type), f.sm.Id, f.modelName)

\* the rest of the loop body once buildProperty is back: the description,
\* Required and Properties; yields the new sm and the new heap
Store(field, sm, h, jsonName, prop) ==
    IF Len(jsonName) # 0
    THEN [sm |-> IF isPropertyRequired(field)
                 THEN [sm EXCEPT !.Required = Append(@, jsonName)]
                 ELSE sm,
          heap |-> [h EXCEPT ![sm.Properties] =
                      Put(@, jsonName,
                          IF field.description # ""
                          THEN [prop EXCEPT !.Description = field.description]
                          ELSE prop)]]
    ELSE [sm |-> sm, heap |-> h]

\* a field whose property needs no addModel call (or that is skipped)
FieldDirect ==
    /\ AtField
    /\ \E plan \in {Plan(Top)} :
          /\ plan.call = "none"
          /\ \E r \in {Store(FieldOf(Top), Top.sm, heap, plan.jsonName, plan.prop)} :
                /\ heap' = r.heap
                /\ stack' = SetTop([Top EXCEPT !.sm = r.sm, !.i = @ + 1])
    /\ UNCHANGED <<request, regs, phase, ret, history>>

\* a field whose builder calls b.addModel on the way
FieldCall ==
    /\ AtField
    /\ Len(stack) < MaxDepth
    /\ \E plan \in {Plan(Top)} :
          /\ plan.call = "addModel"
          /\ stack' = Append(SetTop([Top EXCEPT !.pc = "afterCall",
                                                !.jsonName = plan.jsonName,
                                                !.prop = plan.prop]),
                             Frame(plan.callType, plan.callName, Top.b))
    /\ UNCHANGED <<request, regs, heap, phase, ret, history>>

\* back from that call: the builder returns, the loop body finishes
AfterCall ==
    /\ Running("afterCall")
    /\ \E r \in {Store(FieldOf(Top), Top.sm, heap, Top.jsonName, Top.prop)} :
          /\ heap' = r.heap
          /\ stack' = SetTop([Top EXCEPT !.pc = "fields", !.sm = r.sm, !.i = @ + 1])
    /\ UNCHANGED <<request, regs, phase, ret, history>>

\* an embedded struct: sub := modelBuilder{map[string]Model{}}; sub.addModel
FieldEmbedded ==
    /\ AtField
    /\ Len(stack) < MaxDepth
    /\ \E plan \in {Plan(Top)} :
          /\ plan.call = "embedded"
          /\ regs' = Append(regs, [k \in {} |-> ZeroModel])
          /\ stack' = Append(SetTop([Top EXCEPT !.pc = "afterEmbedded",
                                                !.sub = Len(regs) + 1]),
                             Frame(plan.callType, "", Len(regs) + 1))
    /\ UNCHANGED <<request, heap, phase, ret, history>>

\* the orders in which a range over a Go map may visit its keys
Orders(S) ==
    {o \in [1..Cardinality(S) -> S] : \A i, j \in 1..Cardinality(S) : o[i] = o[j] => i = j}

RECURSIVE Filter(_, _)
\* the keys of order that the sub-model requires, in that order
Filter(order, required) ==
    IF order = <<>> THEN <<>>
    ELSE (IF \E n \in 1..Len(required) : required[n] = Head(order)
          THEN <<Head(order)>> ELSE <<>>) \o Filter(Tail(order), required)

\* CopyRefs that leaves a Model the builder has already as it is
CopyRefs_KeepExisting(reg, sub, props) ==
    LET refs == {props[k].Ref : k \in DOMAIN props} \ {NIL}
    IN  [n \in (DOMAIN reg) \cup refs |-> IF n \in DOMAIN reg THEN reg[n] ELSE Lookup(sub, n)]

\* b.Models after "b.Models[*v.Ref] = sub.Models[*v.Ref]" for every property
CopyRefs(reg, sub, props) ==
    LET refs == {props[k].Ref : k \in DOMAIN props} \ {NIL}
    IN  [n \in (DOMAIN reg) \cup refs |-> IF n \in refs THEN Lookup(sub, n) ELSE reg[n]]

\* MergeProps that keeps the property the model has already
MergeProps_KeepMine(mine, props) ==
    [k \in (DOMAIN mine) \cup (DOMAIN props) |->
        IF k \in DOMAIN mine THEN mine[k] ELSE props[k]]

\* model.Properties after "model.Properties[k] = v" for every property
MergeProps(mine, props) ==
    [k \in (DOMAIN mine) \cup (DOMAIN props) |->
        IF k \in DOMAIN props THEN props[k] ELSE mine[k]]

\* back from sub.addModel: merge the properties of the sub-model into the
\* model, in the order the range visits them; the sub-builder is dropped
AfterEmbedded ==
    /\ Running("afterEmbedded")
    /\ \E subModel \in {Lookup(regs[Top.sub], keyFrom(TypeOf(FieldOf(Top).Type)))} :
       \E props \in {PropsAt(heap, subModel.Properties)} :
       \E order \in Orders(DOMAIN props) :
          /\ heap' = [heap EXCEPT ![Top.sm.Properties] = MergeProps(@, props)]
          /\ regs' = [SubSeq(regs, 1, Top.sub - 1) EXCEPT ![Top.b] =
                        CopyRefs(@, regs[Top.sub], props)]
          /\ stack' = SetTop([Top EXCEPT !.pc = "fields", !.i = @ + 1, !.sub = 0,
                                !.sm.Required = @ \o Filter(order, subModel.Required)])
    /\ UNCHANGED <<request, phase, ret, history>>

\* Finalize that returns &sm without updating the builder
Finalize_NoUpdate ==
    /\ Running("fields")
    /\ Top.i > NumField(TypeOf(Top.st))
    /\ regs' = regs
    /\ Returns([nil |-> FALSE, sm |-> Top.sm])
    /\ UNCHANGED <<request, heap, history>>

\* after the loop: update the builder with the completed model, return &sm
Finalize ==
    /\ Running("fields")
    /\ Top.i > NumField(TypeOf(Top.st))
    /\ regs' = [regs EXCEPT ![Top.b] = Put(@, Top.modelName, Top.sm)]
    /\ Returns([nil |-> FALSE, sm |-> Top.sm])
    /\ UNCHANGED <<request, heap, history>>

\* a further addModel call finds no stack left: the Go runtime ends the
\* program with a fatal stack overflow
StackOverflow ==
    /\ Len(stack) >= MaxDepth
    /\ \/ Running("kind") /\ Kind(TypeOf(Top.st)) \in {"slice", "array"}
       \/ AtField /\ \E plan \in {Plan(Top)} : plan.call # "none"
    /\ phase' = "overflow"
    /\ UNCHANGED <<request, regs, heap, stack, ret, history>>

(* ---------------------------------------------------------------------- *)
(* addModelFrom: after addModel                                            *)
(* ---------------------------------------------------------------------- *)

\* the PostBuildModel method of the types of the universe that have one:
\* it adds a property "links" to the model it is handed and returns it
PostBuildModel(t, m, h) ==
    [m |-> m,
     heap |-> [h EXCEPT ![m.Properties] = Put(@, "links", [ZeroProp EXCEPT !.Type = "any"])]]

\* modelOrNil != nil and the sample is ModelBuildable: call the hook and
\* store what it returns under its Id
PostBuild ==
    /\ phase = "returned"
    /\ ~ret.nil
    /\ IsModelBuildable(TypeOf(sample))
    /\ LET r == PostBuildModel(sample, ret.sm, heap)
       IN  /\ heap' = r.heap
           /\ regs' = [regs EXCEPT ![1] = Put(@, r.m.Id, r.m)]
    /\ hookCalls' = hookCalls + 1
    /\ phase' = "idle"
    /\ UNCHANGED <<request, stack, ret, calls, sample, prevSample, seen, before, hooksBefore>>

\* addModel returned nil, or the sample has no hook
NoPostBuild ==
    /\ phase = "returned"
    /\ ret.nil \/ ~IsModelBuildable(TypeOf(sample))
    /\ phase' = "idle"
    /\ UNCHANGED <<request, regs, heap, stack, ret, history>>

Step ==
    \/ EnterPrimitive \/ EnterVisited \/ EnterNew
    \/ KindList \/ AfterElem \/ KindOther \/ KindStruct
    \/ FieldDirect \/ FieldCall \/ AfterCall
    \/ FieldEmbedded \/ AfterEmbedded
    \/ Finalize \/ StackOverflow
    \/ PostBuild \/ NoPostBuild

Next ==
    \/ \E s \in Samples : AddModelFrom(s)
    \/ Step

Spec == Init /\ [][Next]_vars

\* addModelFrom while fewer than MaxLiveCalls calls were made
AddModelFromEarly(s) == calls < MaxLiveCalls /\ AddModelFrom(s)

LiveNext ==
    \/ \E s \in Samples : AddModelFromEarly(s)
    \/ Step

\* the Go runtime keeps executing a call that was made
LiveSpec == Init /\ [][LiveNext]_vars /\ WF_vars(Step)

TypeOK ==
    /\ phase \in {"idle", "building", "returned", "overflow"}
    /\ calls \in 0..MaxCalls
    /\ Len(stack) <= MaxDepth
    /\ \A n \in 1..Len(stack) : stack[n].b \in 1..Len(regs)

(* ---------------------------------------------------------------------- *)
(* Reading the registry once a call is over                                *)
(* ---------------------------------------------------------------------- *)

\* addModelFrom has returned at least once and no call is under way
Returned == phase = "idle" /\ calls > 0

\* the key under which the Model of a type of the universe is registered
KeyOf(id) == keyFrom(TypeOf(id))

\* some property of the Model registered under key is a Ref to target
HasRefTo(key, target) ==
    /\ key \in DOMAIN Models
    /\ \E k \in DOMAIN Models[key].Properties : Models[key].Properties[k].Ref = target

(* ---------------------------------------------------------------------- *)
(* C1: registering a struct whose type graph has a cycle through pointer   *)
(* fields terminates, and afterwards the registry holds a Model for each   *)
(* type of the cycle, each with a Ref property naming the other (Node:     *)
(* itself).                                                                *)
(* ---------------------------------------------------------------------- *)

SelfCycleBuilt == Returned /\ sample = "Node" /\ HasRefTo("m.Node", "m.Node")

PairCycleBuilt ==
    Returned /\ sample = "A" /\ HasRefTo("m.A", "m.B") /\ HasRefTo("m.B", "m.A")

C1_PointerCyclesTerminate ==
    (phase = "building" /\ sample \in {"Node", "A"}) ~> (SelfCycleBuilt \/ PairCycleBuilt)

C1_Witness ==
    /\ PairCycleBuilt
    /\ Models["m.A"].Properties["b"].Ref = "m.B"
    /\ Models["m.B"].Properties["a"].Ref = "m.A"
    /\ Models["m.B"].Properties["as"].Items.Ref = "m.A"

(* ---------------------------------------------------------------------- *)
(* C2: addModel terminates for every finite type graph, also when a cycle  *)
(* passes through an anonymously embedded struct: the call stack is never  *)
(* exhausted.                                                              *)
(* ---------------------------------------------------------------------- *)

C2_AlwaysTerminates == phase # "overflow"

C2_Witness == phase = "overflow" /\ sample = "E1"

(* ---------------------------------------------------------------------- *)
(* C3: after any addModelFrom call returns no reference dangles: every Ref *)
(* and every Items.Ref of every property of every Model is a key of the    *)
(* registry.                                                               *)
(* ---------------------------------------------------------------------- *)

\* the names the properties of the Model under key refer to
RefsOf(key) ==
    LET props == Models[key].Properties
    IN  ({props[k].Ref : k \in DOMAIN props} \cup
         {props[k].Items.Ref : k \in DOMAIN props}) \ {NIL}

C3_NoDanglingRef ==
    Returned => \A key \in DOMAIN Models : RefsOf(key) \subseteq DOMAIN Models

(* ---------------------------------------------------------------------- *)
(* C4: registration is idempotent: a second addModelFrom call in a row     *)
(* with the same sample leaves the registry as the first call left it and  *)
(* does not run the post-build hook again.                                 *)
(* ---------------------------------------------------------------------- *)

\* the call that has just returned repeated the call before it
Repeated == Returned /\ calls >= 2 /\ sample = prevSample

C4_Idempotent == Repeated => (Models = before /\ hookCalls = hooksBefore)

C4_Witness ==
    /\ Repeated
    /\ sample = "Mid"
    /\ hookCalls = 1
    /\ "links" \in DOMAIN Models["m.Mid"].Properties
    /\ Models = before

(* ---------------------------------------------------------------------- *)
(* C5: a slice or array field whose element type is a primitive of the     *)
(* allow-list yields Type "array" with Items.Type the mapped schema type   *)
(* of the element, no Items.Ref, and no Model registered for the element.  *)
(* ---------------------------------------------------------------------- *)

\* the named struct types of the universe that have one name each and no
\* flattened field: their Model is registered under their name and has one
\* property for each field that is not skipped
PlainStructs == {"Node", "A", "B", "Tag", "Leaf", "Mid", "Inner", "P", "H"}

\* the names in the list of isPrimitiveType
AllowList ==
    {"uint8", "uint16", "uint32", "uint64", "int", "int8", "int16", "int32",
     "int64", "float32", "float64", "bool", "string", "byte", "rune", "time.Time"}

\* the fields of a type, by index
FieldIndexes(id) == 1..NumField(TypeOf(id))

\* the type of field i of a type
FieldTypeOf(id, i) == TypeOf(Field(TypeOf(id), i).Type)

\* the JSON name of field i of a type
JsonNameOf(id, i) == jsonNameOfField(Field(TypeOf(id), i))

\* field i of the type is a list of allow-list primitives, and not skipped
\* nor coerced to a string
IsPrimitiveList(id, i) ==
    /\ Kind(FieldTypeOf(id, i)) \in {"slice", "array"}
    /\ String(Elem(FieldTypeOf(id, i))) \in AllowList
    /\ JsonNameOf(id, i) # ""
    /\ ~TagSaysString(Field(TypeOf(id), i))

\* the property the finished Model of a type has for its field i
PropertyOf(id, i) == Models[KeyOf(id)].Properties[JsonNameOf(id, i)]

C5_PrimitiveListItems ==
    Returned =>
        \A id \in PlainStructs : \A i \in FieldIndexes(id) :
            (KeyOf(id) \in DOMAIN Models /\ IsPrimitiveList(id, i)) =>
                /\ PropertyOf(id, i).Type = "array"
                /\ PropertyOf(id, i).Items.Type =
                      jsonSchemaType(String(Elem(FieldTypeOf(id, i))))
                /\ PropertyOf(id, i).Items.Ref = NIL
                /\ String(Elem(FieldTypeOf(id, i))) \notin DOMAIN Models
                /\ jsonSchemaType(String(Elem(FieldTypeOf(id, i)))) \notin DOMAIN Models

(* ---------------------------------------------------------------------- *)
(* C6: a field of a scalar type of the allow-list gets a Type and a Format *)
(* and no Ref: every integer type, signed or unsigned, of any width        *)
(* yields "integer", the floats "number", bool "boolean", time.Time        *)
(* "string" with format "date-time", int32 the format "int32" and float64  *)
(* "double"; and only the names of the allow-list are taken as primitive,  *)
(* so that a struct field of any other named struct type has its Model.    *)
(* ---------------------------------------------------------------------- *)

IntegerNames ==
    {"int", "int8", "int16", "int32", "int64",
     "uint", "uint8", "uint16", "uint32", "uint64"}

\* the schema type the claim gives a scalar type name
ScalarTypeFor(n) ==
    IF n \in IntegerNames THEN "integer"
    ELSE IF n \in {"float32", "float64"} THEN "number"
    ELSE IF n = "bool" THEN "boolean"
    ELSE "string"

IsScalarField(id, i) ==
    /\ String(FieldTypeOf(id, i)) \in IntegerNames \cup {"float32", "float64", "bool", "time.Time"}
    /\ JsonNameOf(id, i) # ""
    /\ ~TagSaysString(Field(TypeOf(id), i))

C6_ScalarMapping ==
    /\ Returned =>
          \A id \in PlainStructs : \A i \in FieldIndexes(id) :
              (KeyOf(id) \in DOMAIN Models /\ IsScalarField(id, i)) =>
                  /\ PropertyOf(id, i).Type = ScalarTypeFor(String(FieldTypeOf(id, i)))
                  /\ PropertyOf(id, i).Format = jsonSchemaFormat(String(FieldTypeOf(id, i)))
                  /\ PropertyOf(id, i).Ref = NIL
    /\ Returned =>
          \A id \in PlainStructs : \A i \in FieldIndexes(id) :
              (/\ KeyOf(id) \in DOMAIN Models
               /\ Kind(FieldTypeOf(id, i)) = "struct"
               /\ ~ImplementsMarshaler(FieldTypeOf(id, i))
               /\ String(FieldTypeOf(id, i)) \notin AllowList
               /\ JsonNameOf(id, i) # "") =>
                  String(FieldTypeOf(id, i)) \in DOMAIN Models

(* ---------------------------------------------------------------------- *)
(* C7: when a struct embeds a named struct without a naming annotation,    *)
(* every property of the embedded struct's Model is a property of the      *)
(* embedding Model with the same value, unless a later field of the        *)
(* embedding struct has the same JSON name (the later write wins), and the *)
(* embedding Model has no property named after the embedded field.         *)
(* ---------------------------------------------------------------------- *)

\* field i of the type embeds a named struct and has no json tag
Embeds(id, i) ==
    /\ Field(TypeOf(id), i).Anonymous
    /\ Field(TypeOf(id), i).json = ""
    /\ Kind(FieldTypeOf(id, i)) = "struct"
    /\ Name(FieldTypeOf(id, i)) = Field(TypeOf(id), i).Name

\* the named struct types of the universe with such a field
Embedders == {"Outer", "E1"}

\* the JSON names of the fields that follow field i
LaterNames(id, i) == {JsonNameOf(id, j) : j \in {n \in FieldIndexes(id) : n > i}}

\* both Models are in the registry
BothRegistered(id, i) ==
    /\ Returned
    /\ Embeds(id, i)
    /\ KeyOf(id) \in DOMAIN Models
    /\ KeyOf(Field(TypeOf(id), i).Type) \in DOMAIN Models

Flattened(id, i) ==
    LET outer == Models[KeyOf(id)].Properties
        inner == Models[KeyOf(Field(TypeOf(id), i).Type)].Properties
    IN  /\ \A k \in DOMAIN inner :
              /\ k \in DOMAIN outer
              /\ k \notin LaterNames(id, i) => outer[k] = inner[k]
        /\ Field(TypeOf(id), i).Name \notin DOMAIN outer

C7_EmbeddedFlattening ==
    \A id \in Embedders : \A i \in FieldIndexes(id) :
        BothRegistered(id, i) => Flattened(id, i)

C7_Witness ==
    /\ BothRegistered("Outer", 2)
    /\ sample = "Outer"
    /\ Models["m.Outer"].Properties["a"] = Models["m.Inner"].Properties["a"]
    /\ Models["m.Outer"].Properties["a"].Type = "integer"
    /\ Models["m.Outer"].Properties["r"].Type = "string"
    /\ Models["m.Inner"].Properties["r"].Ref = "m.Mid"

(* ---------------------------------------------------------------------- *)
(* C8: a field that is not skipped is in Required if and only if its json  *)
(* tag does not carry omitempty, wherever among the tag's options; with    *)
(* omitempty it is still in Properties.                                    *)
(* ---------------------------------------------------------------------- *)

\* the json tag of the field has the option omitempty
HasOmitEmpty(field) ==
    /\ field.json # ""
    /\ \E n \in 2..Len(Split(field.json, ",")) : Split(field.json, ",")[n] = "omitempty"

\* name is in the Required list of the Model under key
InRequired(key, name) ==
    \E n \in 1..Len(Models[key].Required) : Models[key].Required[n] = name

C8_RequiredIffNotOmitEmpty ==
    Returned =>
        \A id \in PlainStructs : \A i \in FieldIndexes(id) :
            (KeyOf(id) \in DOMAIN Models /\ JsonNameOf(id, i) # "") =>
                /\ JsonNameOf(id, i) \in DOMAIN Models[KeyOf(id)].Properties
                /\ InRequired(KeyOf(id), JsonNameOf(id, i))
                      <=> ~HasOmitEmpty(Field(TypeOf(id), i))

(* ---------------------------------------------------------------------- *)
(* C9: the post-build hook runs exactly once in the top-level registration *)
(* of a sample whose type is ModelBuildable, also when the type was        *)
(* registered before as a sub-Model of another sample, and the registry    *)
(* entry of the type is then the Model the hook returned; it never runs    *)
(* for another type.                                                       *)
(* ---------------------------------------------------------------------- *)

\* the call that has just returned is the first one with this sample
FirstRegistration == Returned /\ sample \notin seen

C9_HookOncePerRegistration ==
    /\ (FirstRegistration /\ IsModelBuildable(TypeOf(sample))) =>
          /\ hookCalls = hooksBefore + 1
          /\ "links" \in DOMAIN Models[KeyOf(sample)].Properties
    /\ (Returned /\ ~IsModelBuildable(TypeOf(sample))) => hookCalls = hooksBefore

(* ---------------------------------------------------------------------- *)
(* C10: every property the builder produces has exactly one shape: a Type  *)
(* other than "array" with no Ref and no Items, or a Ref with no Type and  *)
(* no Items, or the Type "array" with Items holding exactly one of Type    *)
(* and Ref.                                                                *)
(* ---------------------------------------------------------------------- *)

IsPlain(p) == p.Type \notin {NIL, "array"} /\ p.Ref = NIL /\ p.Items.nil

IsRef(p) == p.Ref # NIL /\ p.Type = NIL /\ p.Items.nil

IsArray(p) ==
    /\ p.Type = "array"
    /\ p.Ref = NIL
    /\ ~p.Items.nil
    /\ (p.Items.Type # NIL) # (p.Items.Ref # NIL)

\* every property map the builders have made, those of the Models under
\* construction and of the sub-builders included
C10_OneShape ==
    \A a \in 1..Len(heap) : \A k \in DOMAIN heap[a] :
        IsPlain(heap[a][k]) \/ IsRef(heap[a][k]) \/ IsArray(heap[a][k])

C10_Witness ==
    /\ Returned
    /\ "m.P" \in DOMAIN Models
    /\ IsPlain(Models["m.P"].Properties["i32"])
    /\ IsRef(Models["m.P"].Properties["n"])
    /\ IsArray(Models["m.P"].Properties["ss"])
    /\ IsArray(Models["m.P"].Properties["ps"])
    /\ Models["m.P"].Properties["ss"].Items.Type = "string"

(* ---------------------------------------------------------------------- *)
(* C11 (as stated): when two distinct types canonicalize to the same name  *)
(* and are registered one after the other, the later registration          *)
(* overwrites the earlier entry without an error, so the entry under that  *)
(* name is the Model of the later type.                                    *)
(* ---------------------------------------------------------------------- *)

\* the two types that both canonicalize to "m.Dup"
Dups == {"Dup1", "Dup2"}

\* the JSON names of the fields of a struct type of the universe
FieldNamesOf(id) == {JsonNameOf(id, i) : i \in FieldIndexes(id)}

\* the entry under "m.Dup" is the Model built from this type
DupEntryIsOf(id) ==
    /\ "m.Dup" \in DOMAIN Models
    /\ Models["m.Dup"].Id = "m.Dup"
    /\ DOMAIN Models["m.Dup"].Properties = FieldNamesOf(id)

\* the two calls made were addModelFrom of the one of Dups, then of the other
OneDupAfterTheOther ==
    /\ Returned /\ calls = 2
    /\ prevSample \in Dups /\ sample \in Dups /\ sample # prevSample

C11_LaterOverwrites == OneDupAfterTheOther => DupEntryIsOf(sample)

(* ---------------------------------------------------------------------- *)
(* C11 (amended): of two distinct types that canonicalize to the same      *)
(* name, the one registered first keeps the entry when the later one       *)
(* reaches addModel on the same builder (it returns nil for a name that is *)
(* present); the later one overwrites the entry only when it comes out of  *)
(* the sub-registry of an embedded struct, whose merge copies the          *)
(* referenced Models over the builder's.  Neither reports an error.        *)
(* ---------------------------------------------------------------------- *)

\* Dup1 was registered, then ED, whose embedded KD has a field of type Dup2
DupThenEmbedded == Returned /\ calls = 2 /\ prevSample = "Dup1" /\ sample = "ED"

C11_FirstKeptUnlessMerged ==
    /\ OneDupAfterTheOther => DupEntryIsOf(prevSample)
    /\ DupThenEmbedded => DupEntryIsOf("Dup2")

C11_Witness ==
    /\ DupThenEmbedded
    /\ "x" \in DOMAIN before["m.Dup"].Properties
    /\ DOMAIN Models["m.Dup"].Properties = {"y"}
    /\ Models["m.ED"].Properties["d"].Ref = "m.Dup"

(* ---------------------------------------------------------------------- *)
(* C12: a field of type pointer-to-slice or pointer-to-array yields the    *)
(* same property (Type, Items.Type, Items.Ref) and the same registry       *)
(* insertions as a field of the slice or array type itself with the same   *)
(* JSON name in the same Model, whatever the element type.                 *)
(* ---------------------------------------------------------------------- *)

\* the type of the field the innermost activation is at
TopFieldType == TypeOf(FieldOf(Top).Type)

\* the loop is at a field that buildProperty hands to
\* buildPointerTypeProperty and whose pointee is a slice or an array
AtPointerToList ==
    /\ AtField
    /\ Len(jsonNameOfField(FieldOf(Top))) # 0
    /\ ~ImplementsMarshaler(TopFieldType)
    /\ ~TagSaysString(FieldOf(Top))
    /\ Kind(TopFieldType) = "ptr"
    /\ Kind(Elem(TopFieldType)) \in {"slice", "array"}

\* what buildArrayTypeProperty yields for the pointee, were it the type of
\* the field: the property and the addModel call that inserts into b.Models
AsList(f) ==
    buildArrayTypeProperty(Elem(TypeOf(FieldOf(f).Type)),
                           jsonNameOfField(FieldOf(f)), f.modelName)

C12_PointerToListIsList ==
    AtPointerToList =>
        \E ptr \in {Plan(Top)} : \E lst \in {AsList(Top)} :
            /\ ptr.jsonName = lst.jsonName
            /\ ptr.prop.Type = lst.prop.Type
            /\ ptr.prop.Items = lst.prop.Items
            /\ ptr.call = lst.call
            /\ ptr.callType = lst.callType
            /\ ptr.callName = lst.callName

(* ---------------------------------------------------------------------- *)
(* C13: an unnamed struct type used as the field with JSON name X of the   *)
(* Model named M (directly, as a pointee, or as a slice or array element)  *)
(* is registered as a sub-Model whose key and Id are "M.X", and the        *)
(* property's Ref (or Items.Ref) is "M.X"; nesting composes: "M.X.Y".      *)
(* ---------------------------------------------------------------------- *)

IsUnnamedStruct(t) == Kind(t) = "struct" /\ Name(t) = ""

\* the field of the activation has an unnamed struct as its type, as its
\* pointee or as its element, and is not skipped or mapped to a string
IsAnonymousField(f) ==
    LET field == FieldOf(f)
        t == TypeOf(field.Type)
    IN  /\ Len(jsonNameOfField(field)) # 0
        /\ ~ImplementsMarshaler(t)
        /\ ~TagSaysString(field)
        /\ \/ IsUnnamedStruct(t)
           \/ Kind(t) \in {"ptr", "slice", "array"} /\ IsUnnamedStruct(Elem(t))

\* "M.X" for the field the activation is at
AnonymousName(f) == f.modelName \o "." \o jsonNameOfField(FieldOf(f))

\* the reference a property carries: Items.Ref of an array, Ref otherwise
RefOf(p) == IF p.Items.nil THEN p.Ref ELSE p.Items.Ref

\* the innermost activation is back from the addModel call that its field,
\* one of an unnamed struct type, made
BackFromAnonymous == Running("afterCall") /\ IsAnonymousField(Top)

C13_AnonymousNaming ==
    /\ BackFromAnonymous =>
          /\ AnonymousName(Top) \in DOMAIN regs[Top.b]
          /\ regs[Top.b][AnonymousName(Top)].Id = AnonymousName(Top)
          /\ RefOf(Top.prop) = AnonymousName(Top)
    /\ (Returned /\ calls = 1 /\ sample = "H") =>
          /\ {"m.H.x", "m.H.x.Y", "m.H.q", "m.H.s"} \subseteq DOMAIN Models
          /\ \A k \in {"m.H.x", "m.H.x.Y", "m.H.q", "m.H.s"} : Models[k].Id = k
          /\ Models["m.H"].Properties["x"].Ref = "m.H.x"
          /\ Models["m.H.x"].Properties["Y"].Ref = "m.H.x.Y"
          /\ Models["m.H"].Properties["q"].Ref = "m.H.q"
          /\ Models["m.H"].Properties["s"].Items.Ref = "m.H.s"
          /\ DOMAIN Models["m.H.x.Y"].Properties = {"Z"}
          /\ DOMAIN Models["m.H.q"].Properties = {"V"}
          /\ DOMAIN Models["m.H.s"].Properties = {"W"}

C13_Witness ==
    /\ Returned /\ sample = "H"
    /\ "m.H.x.Y" \in DOMAIN Models
    /\ Models["m.H"].Properties["s"].Items.Ref = "m.H.s"
    /\ Models["m.H"].Properties["q"].Ref = "m.H.q"

(* ---------------------------------------------------------------------- *)
(* Request (src/request.go): one Request, its body stream, the cache       *)
(* r.bodyContent and the two package variables.  Nothing in the package    *)
(* synchronises goroutines, so ReadEntity is executed statement by         *)
(* statement and the reads of r.Request.Body one Read at a time.           *)
(* ---------------------------------------------------------------------- *)

MIME_XML == "application/xml"
MIME_JSON == "application/json"

\* the values the Content-Type header of a request takes ("" when missing)
ContentTypes ==
    {"", "*/*", "application/json", "application/xml; charset=utf-8", "text/plain",
     "application/x-www-form-urlencoded"}

\* the methods of the requests
Methods == {"GET", "POST"}

\* the bodies a request carries; the entity read from them is a
\* struct{ XMLName xml.Name `xml:"a"` } without binding tags
Bodies == {"", "{}", "<a/>"}

\* the scanner of encoding/json on the next byte
JSONStep(state, c) ==
    IF state = "start" THEN (IF c = "{" THEN "object" ELSE "error")
    ELSE IF state = "object" THEN (IF c = "}" THEN "done" ELSE "error")
    ELSE state

\* the tokenizer of encoding/xml on the next byte, up to the end of the
\* first element: text before it is skipped, "<a/>" is an element; after
\* "<a>" it waits for the end of the element
XMLStep(state, c) ==
    IF state = "start" THEN (IF c = "<" THEN "lt" ELSE "start")
    ELSE IF state = "lt"
    THEN (IF c = "a" THEN "name" ELSE IF c = "/" THEN "close" ELSE "error")
    ELSE IF state = "name"
    THEN (IF c = "a" THEN "name" ELSE IF c = "/" THEN "slash"
          ELSE IF c = ">" THEN "open" ELSE "error")
    ELSE IF state = "slash" THEN (IF c = ">" THEN "done" ELSE "error")
    ELSE IF state = "close" THEN (IF c = "a" THEN "close" ELSE "error")
    ELSE state

RECURSIVE Scan(_, _, _)
\* the decoder's state after these bytes; it stops at the end of the value
\* and at a syntax error
Scan(decoder, state, bytes) ==
    IF bytes = "" \/ state \in {"done", "error"} THEN state
    ELSE Scan(decoder,
              IF decoder = "json" THEN JSONStep(state, SubSeq(bytes, 1, 1))
              ELSE XMLStep(state, SubSeq(bytes, 1, 1)),
              SubSeq(bytes, 2, Len(bytes)))

\* Decode(entityPointer) and Validate once the decoder has these bytes:
\* nil, a decoding error, or "more" when it has to read on
Decode(decoder, bytes) ==
    LET state == Scan(decoder, "start", bytes)
    IN  IF state = "done" THEN "nil" ELSE IF state = "error" THEN "decode" ELSE "more"

\* Decode on bytes.NewReader(buffer): the end of the buffer ends the input
DecodeBuffer(decoder, buffer) ==
    IF Decode(decoder, buffer) = "more" THEN "decode" ELSE Decode(decoder, buffer)

\* the media type of a Content-Type header
MediaType(ct) == Split(ct, ";")[1]

\* http.Request.ParseForm reads the body of a form
ReadsForm == method = "POST" /\ MediaType(contentType) = "application/x-www-form-urlencoded"

\* what a ReadEntity call leaves in the log when it returns
Entry(p, decoder, input, err) ==
    [cached |-> p.cached, read |-> p.read, decoder |-> decoder, input |-> input,
     err |-> err, stored |-> p.stored]

\* goroutine g returns from ReadEntity
Return(g, entry) ==
    /\ log' = Append(log, entry)
    /\ procs' = [procs EXCEPT ![g] = Idle]

\* goroutine g is at this statement of ReadEntity
At(g, pc) == procs[g].pc = pc

\* what the request side has besides the goroutines, the body and the log
fixed == <<received, method, contentType, content>>

\* NewRequest(httpRequest)
NewRequest(m, ct, bytes) ==
    /\ ~received
    /\ received' = TRUE
    /\ method' = m
    /\ contentType' = ct
    /\ content' = bytes
    /\ body' = bytes
    /\ bodyContent' = NoBytes
    /\ UNCHANGED <<builder, formParsed, defaultRequestContentType,
                   doCacheReadEntityBytes, procs, started, log>>

\* DefaultRequestContentType(mime)
DefaultRequestContentType(mime) ==
    /\ mime # defaultRequestContentType
    /\ defaultRequestContentType' = mime
    /\ UNCHANGED <<builder, fixed, body, formParsed, bodyContent,
                   doCacheReadEntityBytes, procs, started, log>>

\* SetCacheReadEntity(doCache)
SetCacheReadEntity(doCache) ==
    /\ doCache # doCacheReadEntityBytes
    /\ doCacheReadEntityBytes' = doCache
    /\ UNCHANGED <<builder, fixed, body, formParsed, bodyContent,
                   defaultRequestContentType, procs, started, log>>

\* r.Request.ParseForm(): the first call reads the body of a form, and
\* sets PostForm and Form at once when there is no form to read; a later
\* call finds them set and reads nothing
ParseForm ==
    /\ formParsed # "reading"
    /\ formParsed' = IF formParsed = "yes" THEN "yes"
                     ELSE IF ReadsForm THEN "reading" ELSE "yes"

\* r.BodyParameter(name)
BodyParameter ==
    /\ received
    /\ ParseForm
    /\ UNCHANGED <<builder, fixed, body, bodyContent, defaultRequestContentType,
                   doCacheReadEntityBytes, procs, started, log>>

\* r.QueryParameter(name): FormValue parses the form as ParseForm does
QueryParameter ==
    /\ received
    /\ ParseForm
    /\ UNCHANGED <<builder, fixed, body, bodyContent, defaultRequestContentType,
                   doCacheReadEntityBytes, procs, started, log>>

\* ParseForm reading the form: a Read of the body yields some of its bytes
ParseFormRead ==
    /\ formParsed = "reading"
    /\ \E k \in 1..Len(body) : body' = SubSeq(body, k + 1, Len(body))
    /\ UNCHANGED <<builder, fixed, formParsed, bodyContent, defaultRequestContentType,
                   doCacheReadEntityBytes, procs, started, log>>

\* ParseForm reading the form: the body is at its end, or a Read fails;
\* PostForm and Form are set whatever came of the read
ParseFormReturns ==
    /\ formParsed = "reading"
    /\ formParsed' = "yes"
    /\ UNCHANGED <<builder, fixed, body, bodyContent, defaultRequestContentType,
                   doCacheReadEntityBytes, procs, started, log>>

\* r.ReadEntity(entityPointer), lines 87-92: the header and the test of
\* doCacheReadEntityBytes
ReadEntity(g) ==
    /\ received
    /\ At(g, "idle")
    /\ started < MaxReads
    /\ started' = started + 1
    /\ procs' = [procs EXCEPT ![g] =
                    [Idle EXCEPT !.cached = doCacheReadEntityBytes,
                                 !.src = IF doCacheReadEntityBytes THEN "buffer" ELSE "body",
                                 !.pc = IF doCacheReadEntityBytes THEN "test" ELSE "decode"]]
    /\ UNCHANGED <<builder, fixed, body, formParsed, bodyContent,
                   defaultRequestContentType, doCacheReadEntityBytes, log>>

\* cachingReadEntity, lines 97-99: the test of r.bodyContent
cachingReadEntity(g) ==
    /\ At(g, "test")
    /\ procs' = [procs EXCEPT ![g] =
                    IF ~bodyContent.nil
                    THEN [@ EXCEPT !.buffer = bodyContent.bytes, !.pc = "decode"]
                    ELSE [@ EXCEPT !.pc = "readAll"]]
    /\ UNCHANGED <<builder, fixed, body, formParsed, bodyContent,
                   defaultRequestContentType, doCacheReadEntityBytes, started, log>>

\* line 100, ioutil.ReadAll: a Read of the body yields some of its bytes
ReadAllRead(g) ==
    /\ At(g, "readAll")
    /\ \E k \in 1..Len(body) :
          /\ body' = SubSeq(body, k + 1, Len(body))
          /\ procs' = [procs EXCEPT ![g].buffer = @ \o SubSeq(body, 1, k)]
    /\ UNCHANGED <<builder, fixed, formParsed, bodyContent,
                   defaultRequestContentType, doCacheReadEntityBytes, started, log>>

\* line 100, ioutil.ReadAll: the body is at its end, ReadAll returns
ReadAllEOF(g) ==
    /\ At(g, "readAll")
    /\ body = ""
    /\ procs' = [procs EXCEPT ![g].pc = "store", ![g].read = "ok"]
    /\ UNCHANGED <<builder, fixed, body, formParsed, bodyContent,
                   defaultRequestContentType, doCacheReadEntityBytes, started, log>>

\* lines 100-103, ioutil.ReadAll: a Read fails, the call returns the error
ReadAllFails(g) ==
    /\ At(g, "readAll")
    /\ Return(g, Entry([procs[g] EXCEPT !.read = "failed"], "none", NIL, "read"))
    /\ UNCHANGED <<builder, fixed, body, formParsed, bodyContent,
                   defaultRequestContentType, doCacheReadEntityBytes, started>>

\* line 104: r.bodyContent = &buffer
StoreBodyContent(g) ==
    /\ At(g, "store")
    /\ bodyContent' = [nil |-> FALSE, bytes |-> procs[g].buffer]
    /\ procs' = [procs EXCEPT ![g].pc = "decode", ![g].stored = TRUE]
    /\ UNCHANGED <<builder, fixed, body, formParsed,
                   defaultRequestContentType, doCacheReadEntityBytes, started, log>>

\* decodeEntity has chosen a decoder: on the buffer it decodes and returns,
\* on the request Body it starts to read
StartDecoder(g, decoder) ==
    IF procs[g].src = "buffer"
    THEN Return(g, Entry(procs[g], decoder, procs[g].buffer,
                         DecodeBuffer(decoder, procs[g].buffer)))
    ELSE /\ procs' = [procs EXCEPT ![g].pc = "decoding", ![g].decoder = decoder,
                                   ![g].buffer = ""]
         /\ log' = log

\* decodeEntity, lines 110-126: the tests for XML and for JSON, the latter
\* reading defaultRequestContentType
decodeEntity(g) ==
    /\ At(g, "decode")
    /\ IF Contains(contentType, MIME_XML) THEN StartDecoder(g, "xml")
       ELSE IF Contains(contentType, MIME_JSON) \/ MIME_JSON = defaultRequestContentType
       THEN StartDecoder(g, "json")
       ELSE procs' = [procs EXCEPT ![g].pc = "default"] /\ log' = log
    /\ UNCHANGED <<builder, fixed, body, formParsed, bodyContent,
                   defaultRequestContentType, doCacheReadEntityBytes, started>>

\* decodeEntity, lines 127-135: defaultRequestContentType is read again,
\* for XML; otherwise the 400 error
decodeEntityDefault(g) ==
    /\ At(g, "default")
    /\ IF MIME_XML = defaultRequestContentType THEN StartDecoder(g, "xml")
       ELSE Return(g, Entry(procs[g], "none", NIL, "400"))
    /\ UNCHANGED <<builder, fixed, body, formParsed, bodyContent,
                   defaultRequestContentType, doCacheReadEntityBytes, started>>

\* the decoder on the request Body: a Read yields some bytes; the call
\* returns if they complete the entity or are in error
DecoderRead(g) ==
    /\ At(g, "decoding")
    /\ \E k \in 1..Len(body) :
       \E bytes \in {procs[g].buffer \o SubSeq(body, 1, k)} :
          /\ body' = SubSeq(body, k + 1, Len(body))
          /\ IF Decode(procs[g].decoder, bytes) = "more"
             THEN /\ procs' = [procs EXCEPT ![g].buffer = bytes, ![g].read = "ok"]
                  /\ log' = log
             ELSE Return(g, Entry([procs[g] EXCEPT !.read = "ok"], procs[g].decoder,
                                  bytes, Decode(procs[g].decoder, bytes)))
    /\ UNCHANGED <<builder, fixed, formParsed, bodyContent,
                   defaultRequestContentType, doCacheReadEntityBytes, started>>

\* the decoder on the request Body: the body ends before the entity does
DecoderEOF(g) ==
    /\ At(g, "decoding")
    /\ body = ""
    /\ Return(g, Entry([procs[g] EXCEPT !.read = "ok"], procs[g].decoder,
                       procs[g].buffer, "decode"))
    /\ UNCHANGED <<builder, fixed, body, formParsed, bodyContent,
                   defaultRequestContentType, doCacheReadEntityBytes, started>>

\* the decoder on the request Body: a Read fails before the entity ends
DecoderReadFails(g) ==
    /\ At(g, "decoding")
    /\ Return(g, Entry([procs[g] EXCEPT !.read = "failed"], procs[g].decoder,
                       procs[g].buffer, "read"))
    /\ UNCHANGED <<builder, fixed, body, formParsed, bodyContent,
                   defaultRequestContentType, doCacheReadEntityBytes, started>>

RequestNext ==
    \/ \E m \in Methods : \E ct \in ContentTypes : \E bytes \in Bodies :
          NewRequest(m, ct, bytes)
    \/ \E mime \in {"", MIME_JSON, MIME_XML} : DefaultRequestContentType(mime)
    \/ \E doCache \in BOOLEAN : SetCacheReadEntity(doCache)
    \/ BodyParameter
    \/ QueryParameter
    \/ ParseFormRead
    \/ ParseFormReturns
    \/ \E g \in Goroutines :
          \/ ReadEntity(g) \/ cachingReadEntity(g)
          \/ ReadAllRead(g) \/ ReadAllEOF(g) \/ ReadAllFails(g)
          \/ StoreBodyContent(g)
          \/ decodeEntity(g) \/ decodeEntityDefault(g)
          \/ DecoderRead(g) \/ DecoderEOF(g) \/ DecoderReadFails(g)

RequestSpec == Init /\ [][RequestNext]_vars

(* ---------------------------------------------------------------------- *)
(* Reading the log of the ReadEntity calls                                 *)
(* ---------------------------------------------------------------------- *)

Reads == 1..Len(log)

\* entity caching was enabled at every ReadEntity call made
AlwaysCached == \A i \in Reads : log[i].cached

\* the calls during which the request body was read from
BodyReads == {i \in Reads : log[i].read # "none"}

\* the calls that handed bytes to a decoder
Decodings == {i \in Reads : log[i].input # NIL}

(* ---------------------------------------------------------------------- *)
(* C14: with entity caching enabled at every call, the request body is     *)
(* read at most once over all the ReadEntity calls on a Request, every     *)
(* call decodes the same full byte sequence as the first call, and a       *)
(* failed body read leaves the cache unset.                                *)
(* ---------------------------------------------------------------------- *)

C14_BodyReadAtMostOnce ==
    AlwaysCached =>
        /\ Cardinality(BodyReads) <= 1
        /\ \A i \in Decodings : log[i].input = content
        /\ \A i \in Reads : log[i].read = "failed" => ~log[i].stored

(* ---------------------------------------------------------------------- *)
(* C15: the configured default decoder is used only when the request's     *)
(* Content-Type is missing or is */*; for any other Content-Type that is   *)
(* neither XML nor JSON, ReadEntity returns the 400 error "Unable to       *)
(* unmarshal content of type:" and decodes nothing.                        *)
(* ---------------------------------------------------------------------- *)

\* the Content-Type is given, is not */*, and names neither XML nor JSON
OtherContentType ==
    /\ contentType \notin {"", "*/*"}
    /\ ~Contains(contentType, MIME_XML)
    /\ ~Contains(contentType, MIME_JSON)

\* the call got as far as decodeEntity
ReachedDecodeEntity(i) == ~(log[i].cached /\ log[i].read = "failed")

C15_DefaultOnlyWhenMissing ==
    OtherContentType =>
        \A i \in Reads :
            ReachedDecodeEntity(i) =>
                log[i].err = "400" /\ log[i].decoder = "none" /\ log[i].input = NIL

(* ---------------------------------------------------------------------- *)
(* C16: in addModel for a name N not yet registered, the registry holds an *)
(* entry under N (with Id N) before any recursive addModel call for a      *)
(* field or element type is made, the entry stays present throughout the   *)
(* recursion, and when the call returns the entry under N equals the       *)
(* returned complete Model (same Properties and Required).  Registry keys  *)
(* are never removed.                                                      *)
(* ---------------------------------------------------------------------- *)

\* the activations that are past the placeholder: every one that has made a
\* recursive call is among them
PastEntry == {n \in 1..Len(stack) : stack[n].pc # "enter"}

\* the registry of the activation's builder holds its name, with that Id
PlaceholderPresent(f) ==
    /\ f.modelName \in DOMAIN regs[f.b]
    /\ regs[f.b][f.modelName].Id = f.modelName

\* this step is the innermost activation returning &sm
ReturnsModel == Len(stack') = Len(stack) - 1 /\ ~ret'.nil

\* the builders that are there before and after this step
Surviving == {b \in 1..Len(regs) : b <= Len(regs')}

C16_PlaceholderLifecycle ==
    /\ [](\A n \in PastEntry : PlaceholderPresent(stack[n]))
    /\ [][ReturnsModel => regs'[Top.b][Top.modelName] = ret'.sm]_vars
    /\ [][\A b \in Surviving : DOMAIN regs[b] \subseteq DOMAIN regs'[b]]_vars

C16_Witness ==
    /\ phase = "returned" /\ sample = "A" /\ ~ret.nil
    /\ regs[1]["m.A"] = ret.sm
    /\ ret.sm.Required = <<"b">>
    /\ DOMAIN PropsAt(heap, regs[1]["m.B"].Properties) = {"a", "as"}

(* ---------------------------------------------------------------------- *)
(* C17: in every reachable registry state each entry's key equals the      *)
(* stored Model's Id, placeholders included, also after an embedded        *)
(* struct's sub-registry was merged into the parent.                       *)
(* ---------------------------------------------------------------------- *)

C17_KeyIsId == \A k \in DOMAIN Models : Models[k].Id = k

(* ---------------------------------------------------------------------- *)
(* C18: primitives are never turned into Models: no registry key is a      *)
(* scalar name of the allow-list ("int", "string") or a mapped schema type *)
(* name ("integer", "number", "boolean"), however the primitive was        *)
(* reached.                                                                *)
(* ---------------------------------------------------------------------- *)

\* the schema type names jsonSchemaType maps to
MappedNames == {SchemaTypeMap[n] : n \in DOMAIN SchemaTypeMap}

C18_NoPrimitiveModel == DOMAIN Models \cap (AllowList \cup MappedNames) = {}

(* ---------------------------------------------------------------------- *)
(* C19: registering a sample of a type not registered before leaves every  *)
(* Model that was in the registry when the call was made unchanged, also a *)
(* Model that a post-build hook had replaced and that the new sample       *)
(* reaches through an embedded struct.                                     *)
(* ---------------------------------------------------------------------- *)

\* the call that has returned was made with a sample of a new type
NewSampleRegistered == Returned /\ calls >= 2 /\ sample \notin seen

C19_FinalizedUntouched ==
    NewSampleRegistered =>
        \A k \in DOMAIN before : k \in DOMAIN Models /\ Models[k] = before[k]

(* ---------------------------------------------------------------------- *)
(* C20: in every finalized Model the Required list holds no name twice and *)
(* every name in it is a key of Properties, also when an embedded struct's *)
(* properties are merged over a property of the same name and when two     *)
(* fields share a JSON name.                                               *)
(* ---------------------------------------------------------------------- *)

NoNameTwice(required) ==
    \A i, j \in 1..Len(required) : required[i] = required[j] => i = j

RequiredHasProperties(m) ==
    \A i \in 1..Len(m.Required) : m.Required[i] \in DOMAIN m.Properties

C20_RequiredWellFormed ==
    Returned =>
        \A k \in DOMAIN Models :
            NoNameTwice(Models[k].Required) /\ RequiredHasProperties(Models[k])

====
